---------------------------- MODULE Spec2Model ----------------------------
(***************************************************************************)
(* Model of asnaeb/dynamodb-local: the DynamoDBLocalBuilder class of       *)
(* src/src/dynamodb-local.ts (argument builder, install / uninstall /      *)
(* start / stop, the host-process exit hook) as a state machine.           *)
(*                                                                         *)
(* Two specifications:                                                     *)
(*   SpecArgs  the argument builder #generateArgs applied to one           *)
(*             configuration drawn from a bounded set of inputs;           *)
(*   Spec      the life cycle of two manager instances and the child       *)
(*             processes they spawn, one action per synchronous segment    *)
(*             of each async method (the code between two awaits) and one  *)
(*             per event of a child process.                               *)
(***************************************************************************)
EXTENDS Integers, Sequences, FiniteSets, TLC

VARIABLES
    env,        \* the inputs of a run: the options start is called with,
                \* and whether mkdir succeeds
    build,      \* SpecArgs: the instance #generateArgs runs on and, once it
                \* has run, its result
    verbose,    \* [Inst -> BOOLEAN]        this.#verbose
    handle,     \* [Inst -> pid or Null]    this.#dynamodb
    procs,      \* sequence of child processes ever spawned, pid = index
    calls,      \* sequence of method calls issued so far, with their position
    last,       \* the call that settled in the latest step, with its outcome
    fs,         \* [Inst -> filesystem under this.#path]
    madeDirs,   \* directories created outside the installation paths
    hostExited, \* the host Node.js process has emitted 'exit'
    console     \* [Inst -> what the instance has printed / prompted]

vars == <<env, build, verbose, handle, procs, calls, last, fs, madeDirs, hostExited, console>>

-----------------------------------------------------------------------------
(* Paths (node:path normalize / resolve / join) *)

\* A path is [abs, segs]; its text is PathStr.
Path(abs, segs) == [abs |-> abs, segs |-> segs]

\* process.cwd(), against which path.resolve makes a relative path absolute
Cwd == Path(TRUE, <<"work">>)

RECURSIVE NormSegs(_, _, _)
\* path.normalize on the segments: "." is dropped, ".." removes the segment
\* before it (at the root it is dropped, in a relative path it is kept)
NormSegs(abs, segs, acc) ==
    IF segs = <<>> THEN acc
    ELSE LET s == Head(segs) IN
         IF s = "." THEN NormSegs(abs, Tail(segs), acc)
         ELSE IF s = ".."
              THEN IF acc # <<>> /\ acc[Len(acc)] # ".."
                   THEN NormSegs(abs, Tail(segs), SubSeq(acc, 1, Len(acc) - 1))
                   ELSE IF abs THEN NormSegs(abs, Tail(segs), acc)
                        ELSE NormSegs(abs, Tail(segs), Append(acc, s))
              ELSE NormSegs(abs, Tail(segs), Append(acc, s))

normalize(p) == Path(p.abs, NormSegs(p.abs, p.segs, <<>>))

path_resolve(p) ==
    IF p.abs THEN normalize(p)
    ELSE normalize(Path(TRUE, Cwd.segs \o p.segs))

join(p, name) == normalize(Path(p.abs, Append(p.segs, name)))

RECURSIVE JoinStr(_, _)
\* Array.prototype.join: the elements with sep between them
JoinStr(seq, sep) ==
    IF seq = <<>> THEN ""
    ELSE IF Len(seq) = 1 THEN seq[1]
    ELSE seq[1] \o sep \o JoinStr(Tail(seq), sep)

PathStr(p) == (IF p.abs THEN "/" ELSE "") \o JoinStr(p.segs, "/")

\* const defaultPath = join(__dirname, '..', 'dynamodb')
defaultPath == normalize(Path(TRUE, <<"pkg", "lib", "..", "dynamodb">>))

-----------------------------------------------------------------------------
(* Configuration values (DynamoDBOptions) as JavaScript values *)

\* port: undefined, a number num/den (den = 0 stands for NaN), or a string
PortUndefined == [t |-> "undefined", num |-> 0, den |-> 1, s |-> ""]
PortNum(n, d) == [t |-> "number", num |-> n, den |-> d, s |-> ""]
PortStr(s)    == [t |-> "string", num |-> 0, den |-> 1, s |-> s]

\* dbPath: undefined, a string (a path text, "" has no segment), or a number
DbUndefined  == [t |-> "undefined", p |-> Path(FALSE, <<>>)]
DbString(p)  == [t |-> "string", p |-> p]
DbNumber     == [t |-> "number", p |-> Path(FALSE, <<>>)]

\* cors: undefined or an array whose elements are strings or not
CorsUndefined  == [isArray |-> FALSE, elems |-> <<>>]
CorsArray(es)  == [isArray |-> TRUE, elems |-> es]
CorsElem(s)    == [isStr |-> TRUE, v |-> s]
CorsNonString  == [isStr |-> FALSE, v |-> "1"]

\* JavaScript truthiness of a dbPath value
Truthy(db) ==
    \/ db.t = "string" /\ (db.p.abs \/ db.p.segs # <<>>)
    \/ db.t = "number"

\* Number.isInteger(port)
IsInteger(port) ==
    /\ port.t = "number"
    /\ port.den # 0
    /\ port.num % port.den = 0

\* String(port) of an integer port
PortString(port) == ToString(port.num \div port.den)

RECURSIVE Values(_)
\* the element texts of a cors array
Values(es) == IF es = <<>> THEN <<>> ELSE <<Head(es).v>> \o Values(Tail(es))

-----------------------------------------------------------------------------
(* #generateArgs: one operator per statement, on the state of the call      *)
(* [args, dirs, err]: the list built so far, the directories mkdir was      *)
(* called on, and the error thrown ("none" while running).                  *)

ConfigError == "config error"

ArgsStart(path) ==
    [args |-> << "-Djava.library.path=" \o PathStr(join(path, "DynamoDBLocal_lib")),
                 "-jar",
                 PathStr(join(path, "DynamoDBLocal.jar")) >>,
     dirs |-> {},
     err  |-> "none"]

ArgsCors(st, cfg) ==
    IF st.err # "none" THEN st
    ELSE IF /\ cfg.cors.isArray
            /\ Len(cfg.cors.elems) > 0
            /\ \A k \in 1..Len(cfg.cors.elems) : cfg.cors.elems[k].isStr
         THEN [st EXCEPT !.args = @ \o <<"-cors", JoinStr(Values(cfg.cors.elems), ", ")>>]
         ELSE st

\* a port check that accepts every value of type number
ArgsPortAnyNumber(st, cfg) ==
    IF st.err # "none" THEN st
    ELSE IF cfg.port.t = "undefined" THEN st
    ELSE IF cfg.port.t = "number"
         THEN [st EXCEPT !.args = @ \o <<"-port", "n">>]
         ELSE [st EXCEPT !.err = ConfigError]

ArgsPort(st, cfg) ==
    IF st.err # "none" THEN st
    ELSE IF cfg.port.t = "undefined" THEN st
    ELSE IF IsInteger(cfg.port)
         THEN [st EXCEPT !.args = @ \o <<"-port", PortString(cfg.port)>>]
         ELSE [st EXCEPT !.err = ConfigError]

ArgsInMemory(st, cfg) ==
    IF st.err # "none" THEN st
    ELSE IF cfg.inMemory
         THEN IF ~Truthy(cfg.dbPath)
              THEN [st EXCEPT !.args = @ \o <<"-inMemory">>]
              ELSE [st EXCEPT !.err = ConfigError]
         ELSE st

\* a dbPath statement that passes the option's text on as it is
ArgsDbPathRaw(st, cfg, mkOk) ==
    IF st.err # "none" THEN st
    ELSE IF Truthy(cfg.dbPath) /\ cfg.dbPath.t = "string" /\ ~cfg.inMemory
         THEN [st EXCEPT !.dirs = IF mkOk THEN @ \cup {PathStr(cfg.dbPath.p)} ELSE @,
                         !.args = @ \o <<"-dbPath", PathStr(cfg.dbPath.p),
                                         "-optimizeDbBeforeStartup">>]
         ELSE st

\* mkdir(path, {recursive: true}) inside try/catch: the directory exists
\* afterwards iff the call succeeded (mkOk); a failure is swallowed
ArgsDbPath(st, cfg, mkOk) ==
    IF st.err # "none" THEN st
    ELSE IF Truthy(cfg.dbPath) /\ cfg.dbPath.t = "string" /\ ~cfg.inMemory
         THEN LET path == path_resolve(normalize(cfg.dbPath.p)) IN
              [st EXCEPT !.dirs = IF mkOk THEN @ \cup {PathStr(path)} ELSE @,
                         !.args = @ \o <<"-dbPath", PathStr(path), "-optimizeDbBeforeStartup">>]
         ELSE st

\* a default data directory that is also optimized before startup
ArgsDefaultDbOptimize(st, cfg, path, mkOk) ==
    IF st.err # "none" THEN st
    ELSE IF ~Truthy(cfg.dbPath) /\ ~cfg.inMemory
         THEN LET db == join(path, "DynamoDBLocal_db") IN
              [st EXCEPT !.dirs = IF mkOk THEN @ \cup {PathStr(db)} ELSE @,
                         !.args = @ \o <<"-dbPath", PathStr(db), "-optimizeDbBeforeStartup">>]
         ELSE st

\* a default data directory added whenever dbPath is not given, inMemory or not
ArgsDefaultDbAlways(st, cfg, path, mkOk) ==
    IF st.err # "none" THEN st
    ELSE IF ~Truthy(cfg.dbPath)
         THEN LET db == join(path, "DynamoDBLocal_db") IN
              [st EXCEPT !.dirs = IF mkOk THEN @ \cup {PathStr(db)} ELSE @,
                         !.args = @ \o <<"-dbPath", PathStr(db)>>]
         ELSE st

ArgsDefaultDb(st, cfg, path, mkOk) ==
    IF st.err # "none" THEN st
    ELSE IF ~Truthy(cfg.dbPath) /\ ~cfg.inMemory
         THEN LET db == join(path, "DynamoDBLocal_db") IN
              [st EXCEPT !.dirs = IF mkOk THEN @ \cup {PathStr(db)} ELSE @,
                         !.args = @ \o <<"-dbPath", PathStr(db)>>]
         ELSE st

\* the two flags appended in the other order
ArgsFlagsSharedFirst(st, cfg) ==
    IF st.err # "none" THEN st
    ELSE LET a1 == IF cfg.sharedDB THEN st.args \o <<"-sharedDb">> ELSE st.args
             a2 == IF cfg.delayTransientStatuses
                   THEN a1 \o <<"-delayTransientStatuses">> ELSE a1
         IN [st EXCEPT !.args = a2]

ArgsFlags(st, cfg) ==
    IF st.err # "none" THEN st
    ELSE LET a1 == IF cfg.delayTransientStatuses
                   THEN st.args \o <<"-delayTransientStatuses">> ELSE st.args
             a2 == IF cfg.sharedDB THEN a1 \o <<"-sharedDb">> ELSE a1
         IN [st EXCEPT !.args = a2]

\* the statements in an order that creates the data directory before the
\* port and inMemory checks
generateArgsMkdirFirst(path, cfg, mkOk) ==
    ArgsFlags(
      ArgsInMemory(
        ArgsPort(
          ArgsDefaultDb(
            ArgsDbPath(ArgsCors(ArgsStart(path), cfg), cfg, mkOk),
            cfg, path, mkOk),
          cfg),
        cfg),
      cfg)

\* #generateArgs(cfg) on an instance whose #path is path
generateArgs(path, cfg, mkOk) ==
    ArgsFlags(
      ArgsDefaultDb(
        ArgsDbPath(
          ArgsInMemory(
            ArgsPort(ArgsCors(ArgsStart(path), cfg), cfg),
            cfg),
          cfg, mkOk),
        cfg, path, mkOk),
      cfg)

-----------------------------------------------------------------------------
(* Bounds and inputs *)

\* calls issued by the callers (calls a method makes itself are not counted)
MaxCalls == 2

\* "lib": new DynamoDBLocal(defaultPath), the library variant's default
\* instance; "cli": new DynamoDBLocalCLI(<a custom path>)
Inst == {"lib", "cli"}

customPath == path_resolve(normalize(Path(FALSE, <<"ddb">>)))

\* this.#path
InstPath(i) == IF i = "lib" THEN defaultPath ELSE customPath

Null == 0

Config(cors, port, inMemory, dbPath, sharedDB, delay) ==
    [cors |-> cors, port |-> port, inMemory |-> inMemory, dbPath |-> dbPath,
     sharedDB |-> sharedDB, delayTransientStatuses |-> delay]

TmpX == Path(TRUE, <<"tmp", "x">>)

\* the configurations start is called with in Spec
CfgDefault  == Config(CorsUndefined, PortUndefined, FALSE, DbUndefined, FALSE, FALSE)
CfgInMemory == Config(CorsUndefined, PortNum(3000, 1), TRUE, DbUndefined, FALSE, FALSE)
CfgConflict == Config(CorsUndefined, PortUndefined, TRUE, DbString(TmpX), FALSE, FALSE)
CfgBadPort  == Config(CorsUndefined, PortNum(6001, 2), FALSE, DbUndefined, FALSE, FALSE)

StartArgs ==
    { [cfg |-> CfgDefault, install |-> TRUE], [cfg |-> CfgInMemory, install |-> FALSE],
      [cfg |-> CfgConflict, install |-> FALSE], [cfg |-> CfgBadPort, install |-> TRUE] }

\* what the user types at a prompt
Answers == {"y", "Y", "yes", "YES", "ok", "Ok", "n", "no", ""}

\* String.prototype.toLowerCase on the answers
toLowerCase(s) ==
    CASE s = "Y" -> "y"
      [] s = "YES" -> "yes"
      [] s = "Ok" -> "ok"
      [] OTHER -> s

\* a comparison with the three words as typed, without lower-casing
AcceptedAsTyped(answer) == answer \in {"y", "yes", "ok"}

\* ['y', 'yes', 'ok'].includes(answer.toLowerCase())
Accepted(answer) == toLowerCase(answer) \in {"y", "yes", "ok"}

-----------------------------------------------------------------------------
(* The filesystem under an installation path, and #find *)

File(n) == [name |-> n, kind |-> "file"]
Dir(n)  == [name |-> n, kind |-> "dir"]

\* the bundled manifest of expected library files (./lib-index)
libIndex == {"libsqlite4java-linux-amd64.so", "sqlite4java.jar"}

\* exists: the path can be listed; entries: its listing; lib: the listing of
\* DynamoDBLocal_lib
EmptyFs == [exists |-> FALSE, entries |-> {}, lib |-> {}]

\* the entries the archive unpacks into the destination
ArchiveEntries ==
    {File("DynamoDBLocal.jar"), Dir("DynamoDBLocal_lib"), File("LICENSE.txt"),
     File("README.txt"), File("THIRD-PARTY-LICENSES.txt")}

InstalledFs == [exists |-> TRUE, entries |-> ArchiveEntries, lib |-> libIndex]

\* a lookup that does not inspect the library directory
findJarOnly(f) ==
    /\ f.exists
    /\ File("DynamoDBLocal.jar") \in f.entries

\* DynamoDBLocalBuilder.#find on the tree f: readdir throws when the path
\* cannot be listed, and the catch makes that false
find(f) ==
    /\ f.exists
    /\ File("DynamoDBLocal.jar") \in f.entries
    /\ Dir("DynamoDBLocal_lib") \in f.entries
    /\ libIndex \subseteq f.lib

\* the effect of mkdir(dir, {recursive: true}) on the tree under path: only
\* the default data directory lies under it
Mkdir(f, path, dirs) ==
    IF PathStr(join(path, "DynamoDBLocal_db")) \in dirs
    THEN [f EXCEPT !.exists = TRUE,
                   !.entries = {e \in @ : e.name # "DynamoDBLocal_db"}
                               \cup {Dir("DynamoDBLocal_db")}]
    ELSE f

-----------------------------------------------------------------------------
(* Calls and child processes *)

\* a call of install / uninstall / start / stop on instance i.
\* pc: where the call is suspended, or "resolved" / "rejected";
\* proc: the child a start spawned; timer: a readiness timer is pending;
\* err: the error of a rejection; pid: the pid an already-running error
\* carries; parent: the start call awaiting this install (0: none);
\* names: the names the message of an uninstall lists; input: the readline
\* interface of the call's prompt ("none": never created); answer: the line
\* the step read at a prompt ("none": it read nothing); stderr: the child of
\* the call wrote to its standard error while the call was pending; fetch:
\* the request of the call's downloadDynamoDB.
\* A request: stage: how far the fetch is ("none": no request); destroyed:
\* the timeout listener called req.destroy(); made: its mkdir created the
\* destination; written: how many entries of the archive it has unpacked;
\* length: the content-length header of the response ("none": no response).
NoFetch ==
    [stage |-> "none", destroyed |-> FALSE, made |-> FALSE, written |-> 0,
     length |-> "none"]

\* the request after req.end(): sent, no response yet
Request == [NoFetch EXCEPT !.stage = "request"]

Call(i, op, pc, arg) ==
    [inst |-> i, op |-> op, pc |-> pc, arg |-> arg, proc |-> Null,
     timer |-> FALSE, err |-> "none", pid |-> Null, parent |-> 0, names |-> {},
     input |-> "none", answer |-> "none", stderr |-> FALSE, fetch |-> NoFetch]

\* finally {input?.close()}: the interface, if one was created, is closed
Closed(input) == IF input = "open" THEN "closed" ELSE input

\* what calls keeps of a settled call: its instance and its pending timer
Gone(c) ==
    [Call(c.inst, "none", "settled", <<>>) EXCEPT !.timer = c.timer, !.parent = c.parent]

\* the outcome of call c, as last holds it; a call that prompted settles
\* through the finally block around its prompt
Outcome(c, pc, err) ==
    [c EXCEPT !.pc = pc, !.err = err, !.arg = <<>>, !.timer = FALSE,
              !.input = Closed(@)]

NoOutcome == Call("lib", "none", "none", <<>>)

\* the outcome of a step that resumed with the line read at a prompt
Told(outcome, answer) == [outcome EXCEPT !.answer = answer]

\* start(args): the argument of the run
StartArg == [cfg |-> env.cfg, install |-> env.install]

\* top-level calls issued so far
Issued == Cardinality({k \in 1..Len(calls) : calls[k].parent = 0})

CanCall == ~hostExited /\ Issued < MaxCalls

\* a child process: spawn('java', $args, {shell: true}) sets up no IPC
\* channel, so ChildProcess.connected is false from the start
Proc(i, k) ==
    [owner |-> i, call |-> k, state |-> "running", signalled |-> FALSE,
     marker |-> FALSE, started |-> FALSE, connected |-> FALSE]

\* the child runs and has not been sent a termination signal
Live(p) == p.state = "running" /\ ~p.signalled

\* a kill() that reports success for every child it is called on
KillUnchecked(pid) == pid # Null

\* ChildProcess.kill() returns true iff the process handle still exists,
\* i.e. the child has not exited
KillDelivers(pid) == pid # Null /\ procs[pid].state = "running"

Say(i, what) == [console EXCEPT ![i] = @ \cup what]

\* an error constructor that prints in either variant
SayErrorAlways(i) == Say(i, {"error"})

\* log.error in the DynamoDBLocalError constructor, when verbose
SayError(i) == IF verbose[i] THEN Say(i, {"error"}) ELSE console

\* log.info / success / fail / stdout.write, when verbose
SayInfo(i) == IF verbose[i] THEN Say(i, {"info"}) ELSE console

-----------------------------------------------------------------------------
(* start *)

\* the error #generateArgs throws for the start call c before its first
\* await ("none": it goes on to mkdir)
CheckErr(c) == generateArgs(InstPath(c.inst), c.arg.cfg, TRUE).err

\* call k settles now, with pc and err
Settle(k, pc, err) ==
    /\ calls' = [calls EXCEPT ![k] = Gone(@)]
    /\ last' = Outcome(calls[k], pc, err)

\* the start call k goes on to #generateArgs: a failed check rejects it,
\* otherwise it is suspended in mkdir (or in the await of the built list)
ToGenArgs(cs, k) ==
    IF CheckErr(cs[k]) # "none"
    THEN [cs EXCEPT ![k] = Gone(@)]
    ELSE [cs EXCEPT ![k].pc = "mkdir", ![k].input = Closed(@)]

\* an awaited install whose rejection the start swallows: it goes on to
\* #generateArgs whatever the install did
SettleInstallSwallowed(k, pc, err, answer) ==
    LET p  == calls[k].parent
        c1 == [calls EXCEPT ![k] = Gone(@)]
    IN IF p = 0
       THEN /\ calls' = c1
            /\ last' = Told(Outcome(calls[k], pc, err), answer)
       ELSE /\ calls' = ToGenArgs(c1, p)
            /\ last' = IF CheckErr(calls[p]) # "none"
                       THEN Told(Outcome(calls[p], "rejected", CheckErr(calls[p])), answer)
                       ELSE Told(Outcome(calls[k], pc, err), answer)

\* the install call k settles with pc and err in a step that read answer; a
\* start awaiting it (await this.install()) rejects with its error or goes on
\* to #generateArgs
SettleInstallTold(k, pc, err, answer) ==
    LET p  == calls[k].parent
        c1 == [calls EXCEPT ![k] = Gone(@)]
    IN IF p = 0
       THEN /\ calls' = c1
            /\ last' = Told(Outcome(calls[k], pc, err), answer)
       ELSE IF pc = "rejected"
       THEN /\ calls' = [c1 EXCEPT ![p] = Gone(@)]
            /\ last' = Told(Outcome(calls[p], "rejected", err), answer)
       ELSE /\ calls' = ToGenArgs(c1, p)
            /\ last' = IF CheckErr(calls[p]) # "none"
                       THEN Told(Outcome(calls[p], "rejected", CheckErr(calls[p])), answer)
                       ELSE Told(Outcome(calls[k], pc, err), answer)

\* the install call k settles in a step that read nothing
SettleInstall(k, pc, err) == SettleInstallTold(k, pc, err, "none")

\* the start awaiting install call k throws the config error when it resumes
ParentConfigError(k) ==
    /\ calls[k].parent # 0
    /\ CheckErr(calls[calls[k].parent]) # "none"

\* a start that calls install() and goes on without awaiting it
AwaitInstallDetached(k) ==
    Append([calls EXCEPT ![k].pc = "mkdir"],
           [Call(calls[k].inst, "install", "find", [update |-> FALSE])
               EXCEPT !.parent = k])

\* await this.install() inside start: install() runs to its first await
AwaitInstall(k) ==
    Append([calls EXCEPT ![k].pc = "install"],
           [Call(calls[k].inst, "install", "find", [update |-> FALSE])
               EXCEPT !.parent = k])

\* a start that does not look at this.#dynamodb before going on
StartCallUnguarded(i) ==
    /\ CanCall
    /\ calls' = Append(calls, Call(i, "start", "find", StartArg))
    /\ last' = NoOutcome
    /\ UNCHANGED <<env, build, verbose, handle, procs, fs, madeDirs, hostExited, console>>

\* start(args) up to its first await: the test of this.#dynamodb
StartCall(i) ==
    /\ CanCall
    /\ IF handle[i] = Null
       THEN /\ calls' = Append(calls, Call(i, "start", "find", StartArg))
            /\ last' = NoOutcome /\ UNCHANGED console
       ELSE LET c == [Call(i, "start", "find", StartArg) EXCEPT !.pid = handle[i]] IN
            /\ calls' = Append(calls, Gone(c))
            /\ last' = Outcome(c, "rejected", "AlreadyRunning")
            /\ console' = SayError(i)
    /\ UNCHANGED <<env, build, verbose, handle, procs, fs, madeDirs, hostExited>>

\* start resumes with the result of #find
StartFound(k) ==
    /\ ~hostExited
    /\ calls[k].op = "start" /\ calls[k].pc = "find"
    /\ LET i == calls[k].inst IN
       IF find(fs[i])
       THEN IF CheckErr(calls[k]) # "none"
            THEN /\ Settle(k, "rejected", CheckErr(calls[k]))
                 /\ console' = SayError(i)
            ELSE /\ calls' = [calls EXCEPT ![k].pc = "mkdir"]
                 /\ last' = NoOutcome /\ UNCHANGED console
       ELSE IF verbose[i]
       THEN /\ calls' = [calls EXCEPT ![k].pc = "prompt", ![k].input = "open"]
            /\ console' = Say(i, {"warning", "prompt"})
            /\ last' = NoOutcome
       ELSE IF calls[k].arg.install
       THEN /\ calls' = AwaitInstall(k)
            /\ last' = NoOutcome /\ UNCHANGED console
       ELSE /\ Settle(k, "rejected", "NotInstalled")
            /\ UNCHANGED console
    /\ UNCHANGED <<env, build, verbose, handle, procs, fs, madeDirs, hostExited>>

\* a start that installs whatever the answer to its prompt is
StartAnswerInstallsAnyway(k, answer) ==
    /\ ~hostExited
    /\ calls[k].op = "start" /\ calls[k].pc = "prompt"
    /\ calls' = AwaitInstall(k)
    /\ last' = Told(NoOutcome, answer)
    /\ UNCHANGED <<env, build, verbose, handle, procs, fs, madeDirs, hostExited, console>>

\* the user answers 'Do you want to download and install now? (Y/N)'
StartAnswer(k, answer) ==
    /\ ~hostExited
    /\ calls[k].op = "start" /\ calls[k].pc = "prompt"
    /\ IF Accepted(answer)
       THEN /\ calls' = AwaitInstall(k)
            /\ last' = Told(NoOutcome, answer)
       ELSE /\ calls' = [calls EXCEPT ![k] = Gone(@)]
            /\ last' = Told(Outcome(calls[k], "resolved", "none"), answer)
    /\ UNCHANGED <<env, build, verbose, handle, procs, fs, madeDirs, hostExited, console>>

\* mkdir settles, #generateArgs returns the list, and start goes on:
\* this.#dynamodb = spawn(...) and the listeners of the returned promise
StartSpawn(k) ==
    /\ ~hostExited
    /\ calls[k].op = "start" /\ calls[k].pc = "mkdir"
    /\ LET i == calls[k].inst
           pid == Len(procs) + 1
           r == generateArgs(InstPath(i), calls[k].arg.cfg, env.mkOk)
           db == PathStr(join(InstPath(i), "DynamoDBLocal_db"))
       IN /\ fs' = [fs EXCEPT ![i] = Mkdir(@, InstPath(i), r.dirs)]
          /\ madeDirs' = madeDirs \cup (r.dirs \ {db})
          /\ procs' = Append(procs, Proc(i, k))
          /\ handle' = [handle EXCEPT ![i] = pid]
          /\ calls' = [calls EXCEPT ![k].pc = "pending", ![k].proc = pid, ![k].arg = <<>>]
          /\ console' = SayInfo(i)
    /\ last' = NoOutcome
    /\ UNCHANGED <<env, build, verbose, hostExited>>

\* the child writes a chunk matching /CorsParams/ to its standard output:
\* the 'data' listener arms the 2000 ms timer
ChildMarker(pid) ==
    /\ ~hostExited
    /\ procs[pid].state = "running" /\ ~procs[pid].marker
    /\ procs' = [procs EXCEPT ![pid].marker = TRUE]
    /\ calls' = [calls EXCEPT ![procs[pid].call].timer = TRUE]
    /\ last' = NoOutcome
    /\ UNCHANGED <<env, build, verbose, handle, fs, madeDirs, hostExited, console>>

\* a timer armed when the child is spawned instead of when the marker is read
TimerFireUnarmed(k) ==
    /\ ~hostExited
    /\ calls[k].pc = "pending"
    /\ calls' = [calls EXCEPT ![k] = [Gone(@) EXCEPT !.timer = FALSE]]
    /\ last' = Outcome(calls[k], "resolved", "none")
    /\ procs' = [procs EXCEPT ![calls[k].proc].started = TRUE]
    /\ console' = SayInfo(calls[k].inst)
    /\ UNCHANGED <<env, build, verbose, handle, fs, madeDirs, hostExited>>

\* the timer's callback: the summary when verbose, then resolve()
TimerFire(k) ==
    /\ ~hostExited
    /\ calls[k].timer
    /\ IF calls[k].pc = "pending"
       THEN /\ calls' = [calls EXCEPT ![k] = [Gone(@) EXCEPT !.timer = FALSE]]
            /\ last' = Outcome(calls[k], "resolved", "none")
            /\ procs' = [procs EXCEPT ![calls[k].proc].started = TRUE]
       ELSE /\ calls' = [calls EXCEPT ![k].timer = FALSE]
            /\ last' = NoOutcome /\ UNCHANGED procs
    /\ console' = SayInfo(calls[k].inst)
    /\ UNCHANGED <<env, build, verbose, handle, fs, madeDirs, hostExited>>

\* the child writes to its standard error while its start is pending: the
\* promise of start has listeners on 'error' and on stdout 'data' only, so
\* the bytes stay in the pipe and the call is as it was
ChildStderr(pid) ==
    /\ ~hostExited
    /\ procs[pid].state = "running"
    /\ procs[pid].call # 0 /\ calls[procs[pid].call].pc = "pending"
    /\ ~calls[procs[pid].call].stderr
    /\ calls' = [calls EXCEPT ![procs[pid].call].stderr = TRUE]
    /\ last' = NoOutcome
    /\ UNCHANGED <<env, build, verbose, handle, procs, fs, madeDirs, hostExited, console>>

\* the child emits 'error' (it could not be spawned or signalled); dies: the
\* process is gone with it. Both 'error' listeners reject the promise.
ChildError(pid, dies) ==
    /\ ~hostExited
    /\ procs[pid].state = "running"
    /\ LET k == procs[pid].call
           pending == k # 0 /\ calls[k].pc = "pending"
       IN /\ (dies \/ pending)
          /\ IF pending
             THEN /\ Settle(k, "rejected", "ProcessError")
                  /\ console' = SayError(procs[pid].owner)
             ELSE last' = NoOutcome /\ UNCHANGED <<calls, console>>
    /\ procs' = IF dies THEN [procs EXCEPT ![pid].state = "exited"] ELSE procs
    /\ UNCHANGED <<env, build, verbose, handle, fs, madeDirs, hostExited>>

\* the child exits, on its own or after a signal: the 'exit' listener only logs
ChildExit(pid) ==
    /\ ~hostExited
    /\ procs[pid].state = "running"
    /\ procs' = [procs EXCEPT ![pid].state = "exited"]
    /\ console' = SayInfo(procs[pid].owner)
    /\ last' = NoOutcome
    /\ UNCHANGED <<env, build, verbose, handle, calls, fs, madeDirs, hostExited>>

-----------------------------------------------------------------------------
(* stop and the host process' exit hook *)

\* a stop that signals every child process and forgets every handle
StopAll(i) ==
    /\ CanCall
    /\ procs' = [p \in 1..Len(procs) |-> [procs[p] EXCEPT !.signalled = TRUE]]
    /\ handle' = [j \in Inst |-> Null]
    /\ calls' = Append(calls, Gone(Call(i, "stop", "resolved", <<>>)))
    /\ last' = Outcome(Call(i, "stop", "resolved", <<>>), "resolved", "none")
    /\ UNCHANGED <<env, build, verbose, fs, madeDirs, hostExited, console>>

\* a stop that signals the tracked child and keeps this.#dynamodb
StopKeepsHandle(i) ==
    /\ CanCall
    /\ LET c == Call(i, "stop", "call", <<>>) IN
       /\ calls' = Append(calls, Gone(c))
       /\ IF KillDelivers(handle[i])
          THEN /\ procs' = [procs EXCEPT ![handle[i]].signalled = TRUE]
               /\ last' = Outcome(c, "resolved", "none")
               /\ console' = SayInfo(i)
          ELSE /\ last' = Outcome(c, "rejected", "NotRunning")
               /\ console' = SayError(i)
               /\ UNCHANGED procs
    /\ UNCHANGED <<env, build, verbose, handle, fs, madeDirs, hostExited>>

\* stop(): synchronous; kill() the tracked child and forget it, or return a
\* rejected promise
Stop(i) ==
    /\ CanCall
    /\ LET c == Call(i, "stop", "call", <<>>) IN
       /\ calls' = Append(calls, Gone(c))
       /\ IF KillDelivers(handle[i])
          THEN /\ procs' = [procs EXCEPT ![handle[i]].signalled = TRUE]
               /\ handle' = [handle EXCEPT ![i] = Null]
               /\ last' = Outcome(c, "resolved", "none")
               /\ console' = SayInfo(i)
          ELSE /\ last' = Outcome(c, "rejected", "NotRunning")
               /\ console' = SayError(i)
               /\ UNCHANGED <<procs, handle>>
    /\ UNCHANGED <<env, build, verbose, fs, madeDirs, hostExited>>

\* the hook of instance i runs stop(): this.#dynamodb?.connected && this.stop()
HookStops(i) == handle[i] # Null /\ procs[handle[i]].connected

\* process emits 'exit': every instance's hook runs, then the host is gone
HostExit ==
    /\ ~hostExited
    /\ hostExited' = TRUE
    /\ LET stopped == {i \in Inst : HookStops(i) /\ KillDelivers(handle[i])}
           pids == {handle[i] : i \in stopped}
       IN /\ handle' = [i \in Inst |-> IF i \in stopped THEN Null ELSE handle[i]]
          /\ procs' = [p \in 1..Len(procs) |->
                          IF p \in pids THEN [procs[p] EXCEPT !.signalled = TRUE]
                          ELSE procs[p]]
    /\ last' = NoOutcome
    /\ UNCHANGED <<env, build, verbose, calls, fs, madeDirs, console>>

-----------------------------------------------------------------------------
(* install, downloadDynamoDB and uninstall *)

\* return downloadDynamoDB(this.#path, this.#verbose): the request is sent
\* and the call waits for the promise
ToDownload(c) == [c EXCEPT !.pc = "download", !.fetch = Request, !.input = Closed(@)]

\* install({update}) up to its first await
InstallCall(i, update) ==
    /\ CanCall
    /\ calls' = Append(calls, Call(i, "install", "find", [update |-> update]))
    /\ last' = NoOutcome
    /\ UNCHANGED <<env, build, verbose, handle, procs, fs, madeDirs, hostExited, console>>

\* an install that goes to the download whatever #find returned
InstallFoundFetches(k) ==
    /\ ~hostExited
    /\ calls[k].op = "install" /\ calls[k].pc = "find"
    /\ calls' = [calls EXCEPT ![k] = ToDownload(@)]
    /\ last' = NoOutcome
    /\ UNCHANGED <<env, build, verbose, handle, procs, fs, madeDirs, hostExited, console>>

\* install resumes with the result of #find
InstallFound(k) ==
    /\ ~hostExited
    /\ calls[k].op = "install" /\ calls[k].pc = "find"
    /\ LET i == calls[k].inst IN
       IF find(fs[i]) /\ verbose[i]
       THEN /\ calls' = [calls EXCEPT ![k].pc = "prompt", ![k].input = "open"]
            /\ console' = Say(i, {"prompt"})
            /\ last' = NoOutcome
       ELSE IF find(fs[i]) /\ ~calls[k].arg.update
       THEN /\ SettleInstall(k, "resolved", "none")
            /\ console' = IF ParentConfigError(k) THEN SayError(i) ELSE console
       ELSE /\ calls' = [calls EXCEPT ![k] = ToDownload(@)]
            /\ last' = NoOutcome /\ UNCHANGED console
    /\ UNCHANGED <<env, build, verbose, handle, procs, fs, madeDirs, hostExited>>

\* the user answers 'Overwrite current installation? (Y/N)'
InstallAnswer(k, answer) ==
    /\ ~hostExited
    /\ calls[k].op = "install" /\ calls[k].pc = "prompt"
    /\ IF Accepted(answer)
       THEN /\ calls' = [calls EXCEPT ![k] = ToDownload(@)]
            /\ last' = Told(NoOutcome, answer) /\ UNCHANGED console
       ELSE /\ SettleInstallTold(k, "resolved", "none", answer)
            /\ console' = Say(calls[k].inst,
                              {"info"} \cup IF ParentConfigError(k) THEN {"error"} ELSE {})
    /\ UNCHANGED <<env, build, verbose, handle, procs, fs, madeDirs, hostExited>>

DownloadOutcomes == {"ok", "network error", "extract error"}

\* the tree after the archive is unpacked over f
Unpacked(f) ==
    [exists |-> TRUE,
     entries |-> {e \in f.entries : \A a \in ArchiveEntries : a.name # e.name}
                 \cup ArchiveEntries,
     lib |-> f.lib \cup libIndex]

\* downloadDynamoDB(this.#path, this.#verbose) settles, seen as one step by
\* the caller: the archive is unpacked into the path, or the request fails,
\* or the extraction fails after the destination was created
Download(k, outcome) ==
    /\ ~hostExited
    /\ calls[k].op = "install" /\ calls[k].pc = "download"
    /\ LET i == calls[k].inst IN
       IF outcome = "ok"
       THEN /\ fs' = [fs EXCEPT ![i] = Unpacked(@)]
            /\ SettleInstall(k, "resolved", "none")
            /\ console' = IF verbose[i]
                          THEN Say(i, {"info"} \cup
                                      IF ParentConfigError(k) THEN {"error"} ELSE {})
                          ELSE console
       ELSE /\ fs' = IF outcome = "extract error"
                     THEN [fs EXCEPT ![i].exists = TRUE] ELSE fs
            /\ SettleInstall(k, "rejected", "DownloadError")
            /\ console' = SayError(i)
    /\ UNCHANGED <<env, build, verbose, handle, procs, madeDirs, hostExited>>

\* a list of removals that also names the default data directory
UninstallFilesWithDb ==
    <<Dir("DynamoDBLocal_lib"), File("DynamoDBLocal.jar"), File("LICENSE.txt"),
      File("README.txt"), File("THIRD-PARTY-LICENSES.txt"), Dir("DynamoDBLocal_db")>>

\* the entries uninstall removes one by one from a custom path
UninstallFiles ==
    <<Dir("DynamoDBLocal_lib"), File("DynamoDBLocal.jar"), File("LICENSE.txt"),
      File("README.txt"), File("THIRD-PARTY-LICENSES.txt")>>

\* path.parse(file).name: the base name without its extension
parseName(n) ==
    CASE n = "DynamoDBLocal.jar" -> "DynamoDBLocal"
      [] n = "LICENSE.txt" -> "LICENSE"
      [] n = "README.txt" -> "README"
      [] n = "THIRD-PARTY-LICENSES.txt" -> "THIRD-PARTY-LICENSES"
      [] OTHER -> n

\* uninstall() up to its first await
UninstallCall(i) ==
    /\ CanCall
    /\ calls' = Append(calls, Call(i, "uninstall", "find", <<>>))
    /\ last' = NoOutcome
    /\ UNCHANGED <<env, build, verbose, handle, procs, fs, madeDirs, hostExited, console>>

\* an uninstall that goes to the removal whatever #find returned
UninstallFoundUnchecked(k) ==
    /\ ~hostExited
    /\ calls[k].op = "uninstall" /\ calls[k].pc = "find"
    /\ calls' = [calls EXCEPT ![k].pc = "remove"]
    /\ last' = NoOutcome
    /\ UNCHANGED <<env, build, verbose, handle, procs, fs, madeDirs, hostExited, console>>

\* uninstall resumes with the result of #find
UninstallFound(k) ==
    /\ ~hostExited
    /\ calls[k].op = "uninstall" /\ calls[k].pc = "find"
    /\ LET i == calls[k].inst IN
       IF find(fs[i])
       THEN /\ calls' = [calls EXCEPT ![k].pc = "remove"]
            /\ last' = NoOutcome /\ UNCHANGED console
       ELSE /\ Settle(k, "rejected", "NotInstalled")
            /\ console' = SayError(i)
    /\ UNCHANGED <<env, build, verbose, handle, procs, fs, madeDirs, hostExited>>

\* the names whose removal may fail in one uninstall
RmFailures ==
    {{}} \cup {{UninstallFiles[n].name} : n \in 1..Len(UninstallFiles)}

\* a verdict under which any entry that could not be removed is fatal
UninstallVerdictStrict(rejected) ==
    IF rejected = {} THEN "clean" ELSE "error"

\* what uninstall makes of the list rejected: nothing failed, a required
\* entry is in the list, or only other entries are
UninstallVerdict(rejected) ==
    IF rejected = {} THEN "clean"
    ELSE IF "DynamoDBLocal_lib" \in rejected \/ "DynamoDBLocal.jar" \in rejected
         THEN "error"
         ELSE "warning"

\* the uninstall call k settles with pc and err, its message listing names
SettleListing(k, pc, err, names) ==
    /\ calls' = [calls EXCEPT ![k] = Gone(@)]
    /\ last' = [Outcome(calls[k], pc, err) EXCEPT !.names = names]

\* the rm calls settle; failed: the names whose rm rejected (for the default
\* path, non-empty means the one rm of the tree rejected)
UninstallRemove(k, failed) ==
    /\ ~hostExited
    /\ calls[k].op = "uninstall" /\ calls[k].pc = "remove"
    /\ LET i == calls[k].inst
           targets == {UninstallFiles[n].name : n \in 1..Len(UninstallFiles)}
           present == {e.name : e \in fs[i].entries}
           \* rm without force rejects on an entry that is not there
           rejectedFiles == failed \cup (targets \ present)
           rejected == {parseName(n) : n \in rejectedFiles}
           verdict == UninstallVerdict(rejected)
       IN IF InstPath(i) = defaultPath
          THEN IF failed = {}
               THEN /\ fs' = [fs EXCEPT ![i] = EmptyFs]
                    /\ Settle(k, "resolved", "none")
                    /\ console' = SayInfo(i)
               ELSE /\ Settle(k, "rejected", "RmError")
                    /\ console' = SayError(i)
                    /\ UNCHANGED fs
          ELSE /\ fs' = [fs EXCEPT
                           ![i].entries = {e \in @ : e.name \notin targets \ rejectedFiles},
                           ![i].lib = IF "DynamoDBLocal_lib" \in rejectedFiles
                                      THEN @ ELSE {}]
               /\ IF verdict = "error"
                  THEN /\ SettleListing(k, "rejected", "UninstallError", rejected)
                       /\ console' = SayError(i)
                  ELSE IF verdict = "warning"
                  THEN /\ SettleListing(k, "resolved", "none", rejected)
                       /\ console' = IF verbose[i] THEN Say(i, {"warning"}) ELSE console
                  ELSE /\ SettleListing(k, "resolved", "none", rejected)
                       /\ console' = SayInfo(i)
    /\ UNCHANGED <<env, build, verbose, handle, procs, madeDirs, hostExited>>

-----------------------------------------------------------------------------
(* The life cycle *)

NoBuild ==
    [inst |-> "lib", done |-> FALSE, res |-> ArgsStart(defaultPath),
     launched |-> FALSE, argv |-> <<>>, located |-> "none"]

\* the inputs of a run of Spec; mkdir's outcome matters to CfgDefault only
Envs ==
    {[cfg |-> a.cfg, install |-> a.install, mkOk |-> TRUE] : a \in StartArgs}
    \cup {[cfg |-> CfgDefault, install |-> TRUE, mkOk |-> FALSE]}

\* an instance at the beginning of a run: just constructed, on a path that
\* holds nothing ("empty") or an installation ("installed"), or after a
\* start(env.cfg) that resolved, its child running ("running")
Begin == {"empty", "installed", "running"}

\* the tree under the path of an instance that began as b
BeginFs(i, b, e) ==
    CASE b = "empty" -> EmptyFs
      [] b = "installed" -> InstalledFs
      [] b = "running" ->
           Mkdir(InstalledFs, InstPath(i), generateArgs(InstPath(i), e.cfg, e.mkOk).dirs)

\* the child of an instance that began running: spawned by a call that
\* resolved before the run (call 0), after the marker and the settle delay
BeginProc(i) == [Proc(i, 0) EXCEPT !.marker = TRUE, !.started = TRUE]

\* the state after the two constructors, or after starts that resolved
Init ==
    /\ env \in Envs
    /\ build = NoBuild
    /\ verbose = [i \in Inst |-> i = "cli"]
    /\ \E b \in [Inst -> Begin] :
          /\ \A i \in Inst :
                b[i] = "running" => generateArgs(InstPath(i), env.cfg, env.mkOk).err = "none"
          /\ fs = [i \in Inst |-> BeginFs(i, b[i], env)]
          /\ procs = (IF b["lib"] = "running" THEN <<BeginProc("lib")>> ELSE <<>>)
                      \o (IF b["cli"] = "running" THEN <<BeginProc("cli")>> ELSE <<>>)
          /\ handle = [i \in Inst |->
                          IF b[i] # "running" THEN Null
                          ELSE IF i = "cli" /\ b["lib"] = "running" THEN 2 ELSE 1]
          /\ console = [i \in Inst |->
                          IF b[i] = "running" /\ i = "cli" THEN {"info"} ELSE {}]
    /\ calls = <<>>
    /\ last = NoOutcome
    /\ madeDirs = {}
    /\ hostExited = FALSE

Next ==
    \/ \E i \in Inst : StartCall(i)
    \/ \E k \in 1..Len(calls) : StartFound(k)
    \/ \E k \in 1..Len(calls), answer \in Answers : StartAnswer(k, answer)
    \/ \E k \in 1..Len(calls) : StartSpawn(k)
    \/ \E pid \in 1..Len(procs) : ChildMarker(pid)
    \/ \E k \in 1..Len(calls) : TimerFire(k)
    \/ \E pid \in 1..Len(procs) : ChildStderr(pid)
    \/ \E pid \in 1..Len(procs), dies \in BOOLEAN : ChildError(pid, dies)
    \/ \E pid \in 1..Len(procs) : ChildExit(pid)
    \/ \E i \in Inst : Stop(i)
    \/ HostExit
    \/ \E i \in Inst, update \in BOOLEAN : InstallCall(i, update)
    \/ \E k \in 1..Len(calls) : InstallFound(k)
    \/ \E k \in 1..Len(calls), answer \in Answers : InstallAnswer(k, answer)
    \/ \E k \in 1..Len(calls), outcome \in DownloadOutcomes : Download(k, outcome)
    \/ \E i \in Inst : UninstallCall(i)
    \/ \E k \in 1..Len(calls) : UninstallFound(k)
    \/ \E k \in 1..Len(calls), failed \in RmFailures : UninstallRemove(k, failed)

Spec == Init /\ [][Next]_vars

-----------------------------------------------------------------------------
(* Properties of the life cycle, under Spec *)

\* this step issues a start call on instance i (rejected at once or suspended)
StartIssued(i) ==
    /\ Len(calls') = Len(calls) + 1
    /\ calls'[Len(calls')].inst = i
    /\ calls'[Len(calls')].op = "start" \/ last'.op = "start"

\* this step is a stop call on instance i
StopIssued(i) ==
    /\ Len(calls') = Len(calls) + 1
    /\ calls'[Len(calls')].inst = i
    /\ last'.op = "stop"

\* this step is a segment of a method call on instance i
OperationStep(i) ==
    \/ Len(calls') > Len(calls) /\ calls'[Len(calls')].inst = i
    \/ \E k \in 1..Len(calls) : calls'[k] # calls[k] /\ calls[k].inst = i

\* the children instance i spawned that run and were not signalled
LiveChildren(i) == {p \in 1..Len(procs) : procs[p].owner = i /\ Live(procs[p])}

\* C1: a start on an instance that tracks a child (a start spawned it and no
\* stop came between) is rejected with the already-running error carrying
\* the pid of that child; the child and the handle are unchanged, and the
\* call is settled at once, not queued.
C1_SecondStartRejected ==
    [][\A i \in Inst :
          (handle[i] # Null /\ StartIssued(i)) =>
              /\ last'.op = "start" /\ last'.inst = i
              /\ last'.pc = "rejected" /\ last'.err = "AlreadyRunning"
              /\ last'.pid = handle[i]
              /\ handle' = handle /\ procs' = procs
              /\ calls'[Len(calls')].pc = "settled"
              /\ SubSeq(calls', 1, Len(calls)) = calls]_vars

\* C1 witness: a start of this run spawned a child, and a second start on the
\* instance was rejected with that child's pid while the child runs.
C1_Witness ==
    /\ last.op = "start" /\ last.pc = "rejected" /\ last.err = "AlreadyRunning"
    /\ last.pid # Null
    /\ handle[last.inst] = last.pid
    /\ procs[last.pid].call # 0
    /\ Live(procs[last.pid])

\* C2: in every reachable state each instance has at most one live child that
\* it spawned (two starts issued before the first reaches its spawn included).
C2_AtMostOneLiveChild ==
    \A i \in Inst : Cardinality(LiveChildren(i)) <= 1

C4_StopWithoutChildRejects ==
    [][\A i \in Inst :
          (/\ ~verbose[i]
           /\ StopIssued(i)
           /\ handle[i] = Null \/ procs[handle[i]].state # "running") =>
              /\ last'.inst = i
              /\ last'.pc = "rejected" /\ last'.err = "NotRunning"
              /\ SubSeq(calls', 1, Len(calls)) = calls
              /\ UNCHANGED <<handle, procs, fs, madeDirs, console, hostExited>>]_vars

\* C4 witness: the library instance tracks nothing and its stop was rejected.
C4_Witness ==
    /\ last.op = "stop" /\ last.inst = "lib"
    /\ last.pc = "rejected" /\ last.err = "NotRunning"
    /\ handle["lib"] = Null

\* C5: a stop on an instance whose tracked child runs (as after a start that
\* resolved) signals that child, resolves and clears the handle; with the
\* handle cleared a stop is rejected with the not-running error and a start
\* is accepted; only a start sets the handle again, to a new running child.
C5_StopThenStopOrStart ==
    [][\A i \in Inst :
          /\ (StopIssued(i) /\ handle[i] # Null /\ procs[handle[i]].state = "running") =>
                /\ last'.pc = "resolved"
                /\ procs'[handle[i]].signalled
                /\ handle'[i] = Null
          /\ (StopIssued(i) /\ handle[i] = Null) =>
                /\ last'.pc = "rejected" /\ last'.err = "NotRunning"
                /\ handle'[i] = Null
          /\ (StartIssued(i) /\ handle[i] = Null) =>
                /\ calls'[Len(calls')].op = "start"
                /\ calls'[Len(calls')].pc = "find"
          /\ (handle[i] = Null /\ handle'[i] # Null) =>
                /\ Len(procs') = Len(procs) + 1
                /\ handle'[i] = Len(procs')
                /\ Live(procs'[handle'[i]])
                /\ \E k \in 1..Len(calls) :
                      /\ calls[k].op = "start" /\ calls[k].inst = i
                      /\ calls'[k].proc = handle'[i]]_vars

\* C5 witness: the child of a start that resolved was signalled by a stop,
\* and a later start on the instance has spawned a new child, now tracked.
C5_Witness ==
    \E i \in Inst, p \in 1..Len(procs) :
        /\ procs[p].owner = i /\ procs[p].started /\ procs[p].signalled
        /\ handle[i] # Null /\ handle[i] # p
        /\ Live(procs[handle[i]])

\* C6: a segment of a start, stop, install or uninstall on one instance
\* leaves the handle and the children of every other instance unchanged.
C6_OtherInstanceUntouched ==
    [][\A i \in Inst :
          OperationStep(i) =>
              \A j \in Inst \ {i} :
                  /\ handle'[j] = handle[j]
                  /\ \A p \in 1..Len(procs) :
                        procs[p].owner = j => procs'[p] = procs[p]]_vars

\* C6 witness: two instances each had a running child, a stop on one has
\* resolved and signalled its child, the other's child runs and is tracked.
C6_Witness ==
    /\ last.op = "stop" /\ last.pc = "resolved"
    /\ \E p \in 1..Len(procs) : procs[p].owner = last.inst /\ procs[p].signalled
    /\ \E j \in Inst \ {last.inst} : handle[j] # Null /\ Live(procs[handle[j]])

\* C7: once the tracked child has exited (on its own or with an error) the
\* handle is null: a handle always names a running child.
C7_ExitClearsHandle ==
    \A i \in Inst : handle[i] # Null => procs[handle[i]].state = "running"

\* C8: after the host process has exited no child spawned by an instance is
\* alive.
C8_NoChildSurvivesHostExit ==
    hostExited => \A p \in 1..Len(procs) : ~Live(procs[p])

-----------------------------------------------------------------------------
(* The argument builder on its own *)

\* the option values #generateArgs is applied to in SpecArgs
ArgCors ==
    { CorsUndefined, CorsArray(<<>>), CorsArray(<<CorsElem("a.com")>>),
      CorsArray(<<CorsElem("a.com"), CorsElem("b.com")>>),
      CorsArray(<<CorsElem("a.com"), CorsNonString>>) }

\* undefined, 3000, 0, -1, 3000.5, NaN, "abc"
ArgPorts ==
    { PortUndefined, PortNum(3000, 1), PortNum(0, 1), PortNum(-1, 1),
      PortNum(6001, 2), PortNum(0, 0), PortStr("abc") }

\* undefined, "", "/tmp/x", "data", "/tmp/../x", a number
ArgDbPaths ==
    { DbUndefined, DbString(Path(FALSE, <<>>)), DbString(TmpX),
      DbString(Path(FALSE, <<"data">>)), DbString(Path(TRUE, <<"tmp", "..", "x">>)),
      DbNumber }

ArgConfigs ==
    { Config(cors, port, inMemory, dbPath, sharedDB, delay) :
        cors \in ArgCors, port \in ArgPorts, inMemory \in BOOLEAN,
        dbPath \in ArgDbPaths, sharedDB \in BOOLEAN, delay \in BOOLEAN }

\* what the caller of #generateArgs receives: the list of line 137, or
\* nothing when the call threw
Returned(r) == IF r.err = "none" THEN r.args ELSE <<>>

\* two installed instances and one configuration, before #generateArgs runs
InitArgs ==
    /\ env \in {[cfg |-> c, install |-> FALSE, mkOk |-> ok] :
                  c \in ArgConfigs, ok \in BOOLEAN}
    /\ build \in {[NoBuild EXCEPT !.inst = i, !.res = ArgsStart(InstPath(i))] : i \in Inst}
    /\ verbose = [i \in Inst |-> i = "cli"]
    /\ handle = [i \in Inst |-> Null]
    /\ procs = <<>>
    /\ calls = <<>>
    /\ last = NoOutcome
    /\ fs = [i \in Inst |-> InstalledFs]
    /\ madeDirs = {}
    /\ hostExited = FALSE
    /\ console = [i \in Inst |-> {}]

\* #generateArgs(env.cfg) on instance build.inst, with its mkdir calls
Build ==
    /\ ~build.done
    /\ LET i == build.inst
           r == generateArgs(InstPath(i), env.cfg, env.mkOk)
           db == PathStr(join(InstPath(i), "DynamoDBLocal_db"))
       IN /\ build' = [build EXCEPT !.done = TRUE, !.res = r]
          /\ fs' = [fs EXCEPT ![i] = Mkdir(@, InstPath(i), r.dirs)]
          /\ madeDirs' = madeDirs \cup (r.dirs \ {db})
          /\ console' = IF r.err # "none" THEN SayError(i) ELSE console
    /\ UNCHANGED <<env, verbose, handle, procs, calls, last, hostExited>>

RECURSIVE WordsAfter(_, _, _)
\* the words of the text s after position c, where cuts holds the positions
\* of its spaces, 0 and Len(s) + 1
WordsAfter(s, cuts, c) ==
    IF c > Len(s) THEN <<>>
    ELSE LET e == CHOOSE d \in cuts : d > c /\ \A d2 \in cuts : d2 > c => d <= d2
         IN (IF e > c + 1 THEN <<SubSeq(s, c + 1, e - 1)>> ELSE <<>>)
            \o WordsAfter(s, cuts, e)

\* the words the shell splits the command line s into at its spaces
SplitWords(s) ==
    WordsAfter(s, {k \in 1..Len(s) : SubSeq(s, k, k) = " "} \cup {0, Len(s) + 1}, 0)

\* spawn('java', args, {shell: true}): the command line is 'java' and the
\* arguments joined by spaces, handed to the shell, which splits it into the
\* words the java process receives
SpawnArgv(args) == SplitWords(JoinStr(<<"java">> \o args, " "))

\* spawn('java', $args, {shell: true}) on the list that was built
Launch ==
    /\ build.done /\ ~build.launched
    /\ build.res.err = "none"
    /\ build' = [build EXCEPT !.launched = TRUE, !.argv = SpawnArgv(build.res.args)]
    /\ UNCHANGED <<env, verbose, handle, procs, calls, last, fs, madeDirs, hostExited, console>>

NextArgs == Build \/ Launch

SpecArgs == InitArgs /\ [][NextArgs]_vars

-----------------------------------------------------------------------------
(* Properties of the argument builder, under SpecArgs *)

\* C9: for every configuration with inMemory true and a non-empty dbPath the
\* builder fails with the config error, and a build that fails (on the port
\* check or on the inMemory/dbPath check) has called mkdir on nothing: neither
\* the dbPath directory nor the default data directory exists because of it.
C9_FailedBuildCreatesNoDirectory ==
    build.done =>
        /\ (env.cfg.inMemory /\ Truthy(env.cfg.dbPath)) => build.res.err = ConfigError
        /\ build.res.err # "none" =>
              /\ build.res.dirs = {}
              /\ madeDirs = {}
              /\ fs = [i \in Inst |-> InstalledFs]

\* C9 witness: inMemory with dbPath "/tmp/x" and no port has been built, the
\* build failed with the config error and no directory was created.
C9_Witness ==
    /\ build.done
    /\ env.cfg.inMemory /\ env.cfg.dbPath = DbString(TmpX) /\ env.cfg.port = PortUndefined
    /\ env.mkOk
    /\ build.res.err = ConfigError
    /\ madeDirs = {}

\* C10: for every configuration whose port is present and is not an integer
\* (a fractional number, NaN, or a value that is not a number) the builder
\* fails with the config error and returns no argument list.
C10_NonIntegerPortFails ==
    LET port == env.cfg.port
        nonInteger ==
            \/ port.t = "string"
            \/ port.t = "number" /\ (port.den = 0 \/ port.num % port.den # 0)
    IN (build.done /\ nonInteger) =>
          /\ build.res.err = ConfigError
          /\ Returned(build.res) = <<>>

\* C10 witness: port 3000.5 has been built and the build failed.
C10_Witness ==
    /\ build.done
    /\ env.cfg.port = PortNum(6001, 2)
    /\ build.res.err = ConfigError
    /\ Returned(build.res) = <<>>

\* C11: a port of 0 or a negative integer is refused: the build fails with
\* the config error and the list holds no -port argument.
C11_NonPositivePortFails ==
    LET port == env.cfg.port
        nonPositive == port.t = "number" /\ port.den = 1 /\ port.num <= 0
    IN (build.done /\ nonPositive) =>
          /\ build.res.err = ConfigError
          /\ \A k \in 1..Len(build.res.args) : build.res.args[k] # "-port"

\* the text of instance i's installation path followed by /name
Under(i, name) == PathStr(InstPath(i)) \o "/" \o name

\* the absolute text the dbPath values of ArgDbPaths resolve to
ResolvedText(db) ==
    CASE db = DbString(TmpX) -> "/tmp/x"
      [] db = DbString(Path(FALSE, <<"data">>)) -> "/work/data"
      [] db = DbString(Path(TRUE, <<"tmp", "..", "x">>)) -> "/x"
      [] OTHER -> ""

\* x is an element of the list args
Has(args, x) == \E k \in 1..Len(args) : args[k] = x

\* C12: a build that succeeds with neither dbPath nor inMemory set returns a
\* list that holds -dbPath followed by <installPath>/DynamoDBLocal_db and
\* holds neither -optimizeDbBeforeStartup nor -inMemory.
C12_DefaultDataDirectory ==
    LET cfg == env.cfg
        args == build.res.args
    IN (build.done /\ build.res.err = "none" /\ ~cfg.inMemory /\ ~Truthy(cfg.dbPath)) =>
          /\ \E k \in 1..(Len(args) - 1) :
                args[k] = "-dbPath" /\ args[k + 1] = Under(build.inst, "DynamoDBLocal_db")
          /\ ~Has(args, "-optimizeDbBeforeStartup")
          /\ ~Has(args, "-inMemory")

\* C12 witness: the default configuration was built on the default path.
C12_Witness ==
    /\ build.done /\ build.inst = "lib" /\ env.cfg = CfgDefault
    /\ build.res.args = << "-Djava.library.path=/pkg/dynamodb/DynamoDBLocal_lib", "-jar",
                           "/pkg/dynamodb/DynamoDBLocal.jar",
                           "-dbPath", "/pkg/dynamodb/DynamoDBLocal_db" >>

\* C13: a build that succeeds with a non-empty dbPath string and inMemory not
\* set returns a list that holds -dbPath, the resolved dbPath and
\* -optimizeDbBeforeStartup in a row; the default data directory is neither
\* named nor created; the dbPath directory exists afterwards when mkdir
\* succeeds.
C13_CustomDataDirectory ==
    LET cfg == env.cfg
        args == build.res.args
        dir == ResolvedText(cfg.dbPath)
    IN (/\ build.done /\ build.res.err = "none"
        /\ ~cfg.inMemory /\ cfg.dbPath.t = "string" /\ Truthy(cfg.dbPath)) =>
          /\ dir # ""
          /\ \E k \in 1..(Len(args) - 2) :
                /\ args[k] = "-dbPath" /\ args[k + 1] = dir
                /\ args[k + 2] = "-optimizeDbBeforeStartup"
          /\ ~Has(args, Under(build.inst, "DynamoDBLocal_db"))
          /\ fs[build.inst] = InstalledFs
          /\ env.mkOk => dir \in madeDirs

\* C13 witness: dbPath "/tmp/x" was built and the directory /tmp/x exists.
C13_Witness ==
    /\ build.done /\ env.cfg.dbPath = DbString(TmpX) /\ ~env.cfg.inMemory
    /\ build.res.err = "none"
    /\ \E k \in 1..(Len(build.res.args) - 2) :
          /\ build.res.args[k] = "-dbPath" /\ build.res.args[k + 1] = "/tmp/x"
          /\ build.res.args[k + 2] = "-optimizeDbBeforeStartup"
    /\ "/tmp/x" \in madeDirs

\* a configuration the specification calls valid: the port absent or a
\* positive integer, dbPath absent or a string, not both inMemory and dbPath
ValidConfig(cfg) ==
    /\ \/ cfg.port.t = "undefined"
       \/ cfg.port.t = "number" /\ cfg.port.den = 1 /\ cfg.port.num > 0
    /\ cfg.dbPath.t \in {"undefined", "string"}
    /\ ~(cfg.inMemory /\ Truthy(cfg.dbPath))

\* the cors field holds a non-empty list of strings
CorsSet(cfg) ==
    /\ cfg.cors.isArray /\ cfg.cors.elems # <<>>
    /\ \A k \in 1..Len(cfg.cors.elems) : cfg.cors.elems[k].isStr

\* the list of the launch grammar for cfg on instance i, with corsValue as
\* the value of -cors
ExpectedArgs(i, cfg, corsValue) ==
    << "-Djava.library.path=" \o Under(i, "DynamoDBLocal_lib"), "-jar",
       Under(i, "DynamoDBLocal.jar") >>
    \o (IF CorsSet(cfg) THEN <<"-cors", corsValue>> ELSE <<>>)
    \o (IF cfg.port.t = "number" THEN <<"-port", ToString(cfg.port.num)>> ELSE <<>>)
    \o (IF cfg.inMemory THEN <<"-inMemory">>
        ELSE IF Truthy(cfg.dbPath)
        THEN <<"-dbPath", ResolvedText(cfg.dbPath), "-optimizeDbBeforeStartup">>
        ELSE <<"-dbPath", Under(i, "DynamoDBLocal_db")>>)
    \o (IF cfg.delayTransientStatuses THEN <<"-delayTransientStatuses">> ELSE <<>>)
    \o (IF cfg.sharedDB THEN <<"-sharedDb">> ELSE <<>>)

\* C14: for every valid configuration the build succeeds and the list is
\* exactly: library-path property, -jar, jar path, then in this order
\* [-cors v] [-port n] (-inMemory | -dbPath dir [-optimizeDbBeforeStartup])
\* [-delayTransientStatuses] [-sharedDb], each group present iff its field
\* is set, and nothing else.
C14_ArgumentListShape ==
    LET args == build.res.args
        corsValue == IF Len(args) >= 5 THEN args[5] ELSE ""
    IN (build.done /\ ValidConfig(env.cfg)) =>
          /\ build.res.err = "none"
          /\ args = ExpectedArgs(build.inst, env.cfg, corsValue)

\* C14 witness: a configuration with every field set was built on the custom
\* path.
C14_Witness ==
    /\ build.done /\ build.inst = "cli" /\ ValidConfig(env.cfg)
    /\ CorsSet(env.cfg) /\ env.cfg.port = PortNum(3000, 1) /\ env.cfg.inMemory
    /\ env.cfg.delayTransientStatuses /\ env.cfg.sharedDB
    /\ Len(build.res.args) = 10
    /\ build.res.args[9] = "-delayTransientStatuses" /\ build.res.args[10] = "-sharedDb"

\* C15: a non-empty cors list of strings reaches the child as the single
\* value of -cors, its elements joined by commas and nothing else; any other
\* cors adds no -cors.
C15_CorsIsOneCsvValue ==
    LET cfg == env.cfg
        csv == JoinStr(Values(cfg.cors.elems), ",")
    IN build.launched =>
          IF CorsSet(cfg)
          THEN /\ Len(build.argv) = Len(build.res.args) + 1
               /\ build.argv[5] = "-cors" /\ build.argv[6] = csv
          ELSE ~Has(build.argv, "-cors")

-----------------------------------------------------------------------------
(* The installation locator on its own *)

\* the trees #find is applied to in SpecFind: a path that cannot be listed,
\* or a directory in which the jar name and the lib name are each absent, a
\* file or a directory, with or without another file, the lib directory
\* holding any part of the manifest and possibly another file
FindTrees ==
    {EmptyFs} \cup
    { t \in { [exists |-> TRUE, entries |-> jar \cup lib \cup other, lib |-> listing] :
                jar \in {{}, {File("DynamoDBLocal.jar")}, {Dir("DynamoDBLocal.jar")}},
                lib \in {{}, {File("DynamoDBLocal_lib")}, {Dir("DynamoDBLocal_lib")}},
                other \in {{}, {File("LICENSE.txt")}},
                listing \in SUBSET (libIndex \cup {"extra.so"}) } :
        t.lib # {} => Dir("DynamoDBLocal_lib") \in t.entries }

\* one instance on a tree of FindTrees, before #find runs
InitFind ==
    /\ env = [cfg |-> CfgDefault, install |-> FALSE, mkOk |-> TRUE]
    /\ build \in {[NoBuild EXCEPT !.inst = i, !.res = ArgsStart(InstPath(i))] : i \in Inst}
    /\ verbose = [i \in Inst |-> i = "cli"]
    /\ handle = [i \in Inst |-> Null]
    /\ procs = <<>>
    /\ calls = <<>>
    /\ last = NoOutcome
    /\ \E t \in FindTrees : fs = [i \in Inst |-> IF i = build.inst THEN t ELSE EmptyFs]
    /\ madeDirs = {}
    /\ hostExited = FALSE
    /\ console = [i \in Inst |-> {}]

\* DynamoDBLocalBuilder.#find(this.#path) returns
Locate ==
    /\ build.located = "none"
    /\ build' = [build EXCEPT !.located = IF find(fs[build.inst]) THEN "true" ELSE "false"]
    /\ UNCHANGED <<env, verbose, handle, procs, calls, last, fs, madeDirs, hostExited, console>>

NextFind == Locate

SpecFind == InitFind /\ [][NextFind]_vars

\* C16: #find returns true or false, and true iff the path can be listed,
\* holds a file DynamoDBLocal.jar and a directory DynamoDBLocal_lib, and
\* the listing of that directory holds every name of the manifest.
C16_LocatorIffComplete ==
    LET f == fs[build.inst] IN
    build.located # "none" =>
        /\ build.located \in {"true", "false"}
        /\ build.located = "true" <=>
              /\ f.exists
              /\ \E e \in f.entries : e.name = "DynamoDBLocal.jar" /\ e.kind = "file"
              /\ \E e \in f.entries : e.name = "DynamoDBLocal_lib" /\ e.kind = "dir"
              /\ \A n \in libIndex : n \in f.lib

\* C16 witness: #find returned true on a tree whose library directory holds
\* a file that is not in the manifest.
C16_Witness ==
    /\ build.located = "true"
    /\ "extra.so" \in fs[build.inst].lib
    /\ File("LICENSE.txt") \in fs[build.inst].entries

-----------------------------------------------------------------------------
(* install and uninstall on their own: both variants on both paths *)

\* an installation whose jar file is missing
MissingJarFs ==
    [InstalledFs EXCEPT !.entries = @ \ {File("DynamoDBLocal.jar")}]

\* an installation without the licence and readme files
BareFs ==
    [InstalledFs EXCEPT
        !.entries = {File("DynamoDBLocal.jar"), Dir("DynamoDBLocal_lib")}]

\* every set of entries whose rm may reject in one uninstall
AllRmFailures == SUBSET {UninstallFiles[n].name : n \in 1..Len(UninstallFiles)}

\* the state after the two constructors: "lib" names the instance on the
\* default path and "cli" the one on a custom path, each of either variant
\* (new DynamoDBLocal(path) or new DynamoDBLocalCLI(path))
InitFiles ==
    /\ env = [cfg |-> CfgDefault, install |-> FALSE, mkOk |-> TRUE]
    /\ build = NoBuild
    /\ verbose \in [Inst -> BOOLEAN]
    /\ handle = [i \in Inst |-> Null]
    /\ procs = <<>>
    /\ calls = <<>>
    /\ last = NoOutcome
    /\ fs \in [Inst -> {EmptyFs, InstalledFs, MissingJarFs, BareFs}]
    /\ madeDirs = {}
    /\ hostExited = FALSE
    /\ console = [i \in Inst |-> {}]

NextFiles ==
    \/ \E i \in Inst, update \in BOOLEAN : InstallCall(i, update)
    \/ \E k \in 1..Len(calls) : InstallFound(k)
    \/ \E k \in 1..Len(calls), answer \in Answers : InstallAnswer(k, answer)
    \/ \E k \in 1..Len(calls), outcome \in DownloadOutcomes : Download(k, outcome)
    \/ \E i \in Inst : UninstallCall(i)
    \/ \E k \in 1..Len(calls) : UninstallFound(k)
    \/ \E k \in 1..Len(calls), failed \in AllRmFailures : UninstallRemove(k, failed)

SpecFiles == InitFiles /\ [][NextFiles]_vars

-----------------------------------------------------------------------------
(* Properties of install and uninstall, under SpecFiles *)

\* call k of operation op leaves the position pc in this step
Leaves(k, op, pc) ==
    /\ calls[k].op = op /\ calls[k].pc = pc
    /\ calls'[k].pc # pc

\* the names of the five entries uninstall removes from a custom path, and
\* the three of them that are not required
Targets == {UninstallFiles[n].name : n \in 1..Len(UninstallFiles)}
Auxiliary == Targets \ {"DynamoDBLocal.jar", "DynamoDBLocal_lib"}

\* the names of the entries under the path of instance i
Present(f) == {e.name : e \in f.entries}

\* C17: an uninstall that resumes on a path where #find reports no
\* installation rejects with the not-installed error and leaves the
\* filesystem as it was, on the default path and on a custom path.
C17_UninstallNotInstalled ==
    [][\A k \in 1..Len(calls) :
          (Leaves(k, "uninstall", "find") /\ ~find(fs[calls[k].inst])) =>
              /\ last'.op = "uninstall" /\ last'.inst = calls[k].inst
              /\ last'.pc = "rejected" /\ last'.err = "NotInstalled"
              /\ calls'[k].pc = "settled"
              /\ fs' = fs /\ madeDirs' = madeDirs]_vars

\* C17 witness: uninstall was rejected as not installed on the default path,
\* whose tree holds the library directory but no jar file.
C17_Witness ==
    /\ last.op = "uninstall" /\ last.inst = "lib"
    /\ last.pc = "rejected" /\ last.err = "NotInstalled"
    /\ fs["lib"] = MissingJarFs

\* C18: an uninstall on a custom path resolves only if neither the removal
\* of the jar file nor that of the library directory failed: after an
\* uninstall that resolved, both are gone.
C18_RequiredFailureRejects ==
    (/\ last.op = "uninstall" /\ last.pc = "resolved"
     /\ InstPath(last.inst) # defaultPath) =>
        /\ File("DynamoDBLocal.jar") \notin fs[last.inst].entries
        /\ Dir("DynamoDBLocal_lib") \notin fs[last.inst].entries

\* C19: when an uninstall on a custom path has removed the jar file and the
\* library directory and the removal of some other entry failed, the call
\* resolves, with a warning in the verbose variant and nothing printed in
\* the other; the message lists only such entries, and every entry it does
\* not list has been removed.
C19_AuxiliaryFailureWarns ==
    [][\A k \in 1..Len(calls) :
          LET i == calls[k].inst IN
          (/\ Leaves(k, "uninstall", "remove")
           /\ InstPath(i) # defaultPath
           /\ {"DynamoDBLocal.jar", "DynamoDBLocal_lib"} \subseteq Present(fs[i])
           /\ {"DynamoDBLocal.jar", "DynamoDBLocal_lib"} \cap Present(fs'[i]) = {}
           /\ Auxiliary \cap Present(fs'[i]) # {}) =>
              /\ last'.op = "uninstall" /\ last'.pc = "resolved"
              /\ last'.names # {}
              /\ last'.names \subseteq {parseName(n) : n \in Auxiliary}
              /\ \A n \in Targets : n \in Present(fs'[i]) => parseName(n) \in last'.names
              /\ IF verbose[i] THEN console'[i] = console[i] \cup {"warning"}
                               ELSE console' = console]_vars

\* C19 witness: on the custom path only README.txt is left of the five
\* entries and the uninstall of the library variant resolved, listing it.
C19_Witness ==
    /\ last.op = "uninstall" /\ last.pc = "resolved" /\ last.inst = "cli"
    /\ ~verbose["cli"]
    /\ last.names = {"README"}
    /\ Present(fs["cli"]) = {"README.txt"}

C21_OverwritePrompt ==
    [][\A k \in 1..Len(calls) :
          LET i == calls[k].inst IN
          /\ (Leaves(k, "install", "find") /\ verbose[i] /\ find(fs[i])) =>
                /\ calls'[k].pc = "prompt" /\ calls'[k].input = "open"
                /\ "prompt" \in console'[i]
                /\ fs' = fs
          /\ Leaves(k, "install", "prompt") =>
                /\ calls[k].input = "open"
                /\ fs' = fs
                /\ last'.answer \in Answers
                /\ IF toLowerCase(last'.answer) \in {"y", "yes", "ok"}
                   THEN /\ calls'[k].pc = "download"
                        /\ calls'[k].input = "closed"
                   ELSE /\ calls'[k].pc = "settled"
                        /\ last'.op = "install" /\ last'.inst = i
                        /\ last'.pc = "resolved" /\ last'.input = "closed"
          /\ Leaves(k, "install", "download") => calls[k].input # "open"]_vars

\* C21 witness: a verbose install on the custom path was answered YES, its
\* interface is closed and it is in the download, nothing changed so far.
C21_Witness ==
    \E k \in 1..Len(calls) :
        /\ last.answer = "YES"
        /\ calls[k].op = "install" /\ calls[k].pc = "download"
        /\ calls[k].inst = "cli" /\ verbose["cli"]
        /\ calls[k].input = "closed"
        /\ fs["cli"] = BareFs

-----------------------------------------------------------------------------
(* Properties of start on a path without an installation, under Spec *)

\* the install calls that the start call k made and that have not settled
InstallsOf(k) ==
    {j \in 1..Len(calls) : calls[j].parent = k /\ calls[j].pc # "settled"}

C23_VerboseStartNotInstalled ==
    /\ [][\A k \in 1..Len(calls) :
             LET i == calls[k].inst IN
             /\ (Leaves(k, "start", "find") /\ verbose[i] /\ ~find(fs[i])) =>
                   /\ calls'[k].pc = "prompt" /\ "prompt" \in console'[i]
                   /\ Len(calls') = Len(calls)
                   /\ fs' = fs /\ procs' = procs /\ handle' = handle
             /\ Leaves(k, "start", "prompt") =>
                   /\ fs' = fs /\ procs' = procs /\ handle' = handle
                   /\ IF toLowerCase(last'.answer) \in {"y", "yes", "ok"}
                      THEN /\ Len(calls') = Len(calls) + 1
                           /\ calls'[Len(calls')].op = "install"
                           /\ calls'[Len(calls')].parent = k
                           /\ calls'[k].pc = "install"
                      ELSE /\ last'.answer \in Answers
                           /\ Len(calls') = Len(calls)
                           /\ calls'[k].pc = "settled"
                           /\ last'.op = "start" /\ last'.inst = i
             /\ (Leaves(k, "start", "install") /\ verbose[i]) =>
                   /\ InstallsOf(k) # {}
                   /\ \A j \in InstallsOf(k) : calls'[j].pc = "settled"
                   /\ procs' = procs /\ handle' = handle
                   /\ IF calls'[k].pc = "settled"
                      THEN last'.op = "start" /\ last'.pc = "rejected"
                      ELSE /\ calls'[k].pc = "mkdir"
                           /\ last'.op = "install" /\ last'.pc = "resolved"
                           /\ CheckErr(calls[k]) = "none"
             /\ (Leaves(k, "start", "mkdir") /\ verbose[i]) =>
                   /\ Len(procs') = Len(procs) + 1
                   /\ procs'[Len(procs')].call = k
                   /\ handle'[i] = Len(procs')]_vars
    /\ [](\A k \in 1..Len(calls) :
             (verbose[calls[k].inst] /\ calls[k].pc \in {"prompt", "install"}) =>
                 \A pid \in 1..Len(procs) : procs[pid].call # k)

\* C23 witness: the verbose start was answered Ok, its install unpacked the
\* archive and settled, and the child of that same call is running.
C23_Witness ==
    \E k \in 1..Len(calls), pid \in 1..Len(procs) :
        /\ calls[k].inst = "cli" /\ calls[k].pc = "pending"
        /\ calls[k].input = "closed"
        /\ procs[pid].call = k /\ Live(procs[pid])
        /\ handle["cli"] = pid
        /\ \E j \in 1..Len(calls) : calls[j].parent = k /\ calls[j].pc = "settled"
        /\ find(fs["cli"])

\* C24: a start call whose configuration fails the checks of #generateArgs
\* begins no download: no install call made by such a start is ever in
\* downloadDynamoDB.
C24_InvalidStartHasNoEffect ==
    \A j \in 1..Len(calls) :
        (calls[j].parent # 0 /\ calls[j].pc = "download") =>
            CheckErr(calls[calls[j].parent]) = "none"

-----------------------------------------------------------------------------
(* Properties of what a variant prints and how it reports, under Spec *)

\* C25: in the verbose variant every stop resolves, also the one called on
\* an instance without a tracked child.
C25_VerboseStopResolves ==
    (last.op = "stop" /\ verbose[last.inst]) => last.pc = "resolved"

C27_StderrRejectsStart ==
    (last.op = "start" /\ last.stderr) => last.pc # "resolved"

-----------------------------------------------------------------------------
(* downloadDynamoDB step by step *)

\* the entries of the archive in the order tar writes them
ArchiveOrder ==
    <<Dir("DynamoDBLocal_lib"), File("DynamoDBLocal.jar"), File("LICENSE.txt"),
      File("README.txt"), File("THIRD-PARTY-LICENSES.txt")>>

\* the tree after the first n entries of the archive were written over f
Extracted(f, n) ==
    LET new == {ArchiveOrder[m] : m \in 1..n} IN
    [exists |-> TRUE,
     entries |-> {e \in f.entries : \A a \in new : a.name # e.name} \cup new,
     lib |-> IF n >= 1 THEN f.lib \cup libIndex ELSE f.lib]

\* the promise of the fetch of call k is still pending
FetchPending(k) == calls[k].pc = "download"

\* the request of call k goes on as f, nothing is resolved or rejected
FetchGoes(k, f) ==
    /\ calls' = [calls EXCEPT ![k].fetch = f]
    /\ last' = NoOutcome

\* resolve(...) or reject(...) in the fetch of call k, its request going on
\* as f: the first one settles the promise, and with it the install call
\* that returned it; a later one has no effect
FetchSettles(k, pc, err, f) ==
    IF FetchPending(k)
    THEN /\ calls' = [calls EXCEPT ![k] = [Gone(@) EXCEPT !.fetch = f]]
         /\ last' = Outcome([calls[k] EXCEPT !.fetch = f], pc, err)
    ELSE FetchGoes(k, f)

\* new DynamoDBLocalError(name, message, verbose) inside the fetch
FetchSayError(k) == SayError(calls[k].inst)

\* a response handler that does not look at the content-length header
FetchResponseAnyLength(k, hasLength) ==
    /\ calls[k].fetch.stage = "request" /\ ~calls[k].fetch.destroyed
    /\ FetchGoes(k, [calls[k].fetch EXCEPT
                         !.stage = "mkdir",
                         !.length = IF hasLength THEN "present" ELSE "absent"])
    /\ UNCHANGED <<env, build, verbose, handle, procs, fs, madeDirs, hostExited, console>>

\* the response arrives: without a content-length header the handler throws
\* and its catch rejects; with one it goes on to mkdir
FetchResponse(k, hasLength) ==
    /\ calls[k].fetch.stage = "request" /\ ~calls[k].fetch.destroyed
    /\ IF hasLength
       THEN /\ FetchGoes(k, [calls[k].fetch EXCEPT !.stage = "mkdir",
                                                   !.length = "present"])
            /\ UNCHANGED console
       ELSE /\ FetchSettles(k, "rejected", "error: Unable to determine response size",
                            [calls[k].fetch EXCEPT !.stage = "unread",
                                                   !.length = "absent"])
            /\ console' = FetchSayError(k)
    /\ UNCHANGED <<env, build, verbose, handle, procs, fs, madeDirs, hostExited>>

\* await mkdir(destination, {recursive: true}) settles: the destination
\* exists and the response is piped into tar, or the error is rejected
FetchMkdir(k, ok) ==
    /\ calls[k].fetch.stage = "mkdir"
    /\ LET i == calls[k].inst IN
       IF ok
       THEN /\ fs' = [fs EXCEPT ![i].exists = TRUE]
            /\ FetchGoes(k, [calls[k].fetch EXCEPT !.stage = "pipeline",
                                                   !.made = ~fs[i].exists])
            /\ UNCHANGED console
       ELSE /\ FetchSettles(k, "rejected", "Error: mkdir",
                            [calls[k].fetch EXCEPT !.stage = "none"])
            /\ console' = FetchSayError(k)
            /\ UNCHANGED fs
    /\ UNCHANGED <<env, build, verbose, handle, procs, madeDirs, hostExited>>

\* tar writes the next entry of the archive under the destination
FetchEntry(k) ==
    /\ calls[k].fetch.stage = "pipeline" /\ ~calls[k].fetch.destroyed
    /\ calls[k].fetch.written < Len(ArchiveOrder)
    /\ LET i == calls[k].inst
           n == calls[k].fetch.written + 1
       IN /\ fs' = [fs EXCEPT ![i] = Extracted(@, n)]
          /\ FetchGoes(k, [calls[k].fetch EXCEPT !.written = n])
          /\ console' = SayInfo(i)
    /\ UNCHANGED <<env, build, verbose, handle, procs, madeDirs, hostExited>>

\* await pipeline(res, untar) resolves after the last entry: resolve(...)
FetchEnd(k) ==
    /\ calls[k].fetch.stage = "pipeline" /\ ~calls[k].fetch.destroyed
    /\ calls[k].fetch.written = Len(ArchiveOrder)
    /\ FetchSettles(k, "resolved", "none", [calls[k].fetch EXCEPT !.stage = "none"])
    /\ console' = SayInfo(calls[k].inst)
    /\ UNCHANGED <<env, build, verbose, handle, procs, fs, madeDirs, hostExited>>

\* tar rejects the archive: pipeline rejects and the catch rejects with the
\* error's name and message; what was written stays
FetchCorrupt(k) ==
    /\ calls[k].fetch.stage = "pipeline" /\ ~calls[k].fetch.destroyed
    /\ calls[k].fetch.written < Len(ArchiveOrder)
    /\ FetchSettles(k, "rejected", "TarError: archive", [calls[k].fetch EXCEPT !.stage = "none"])
    /\ console' = FetchSayError(k)
    /\ UNCHANGED <<env, build, verbose, handle, procs, fs, madeDirs, hostExited>>

\* the response emits 'error' (the connection was lost before its end);
\* closed: req.destroyed is already true, by the timeout listener or because
\* the client marks the request destroyed when its socket closes. The
\* listener rejects with !req.destroyed && new DynamoDBLocalError(...); the
\* rejection of pipeline that follows comes second.
FetchResError(k, closed) ==
    /\ calls[k].fetch.stage \in {"pipeline", "unread"}
    /\ calls[k].fetch.destroyed => closed
    /\ IF closed
       THEN /\ FetchSettles(k, "rejected", "false", [calls[k].fetch EXCEPT !.stage = "none"])
            /\ console' = IF calls[k].fetch.stage = "pipeline"
                          THEN FetchSayError(k) ELSE console
       ELSE /\ FetchSettles(k, "rejected", "network error: aborted",
                            [calls[k].fetch EXCEPT !.stage = "none"])
            /\ console' = FetchSayError(k)
    /\ UNCHANGED <<env, build, verbose, handle, procs, fs, madeDirs, hostExited>>

\* the request emits 'timeout' (its socket was idle for 3000 ms): the
\* listener destroys the request and rejects; before a response nothing more
\* follows but the request's own 'error', which rejects second
FetchTimeout(k) ==
    /\ calls[k].fetch.stage \in {"request", "mkdir", "pipeline", "unread"}
    /\ ~calls[k].fetch.destroyed
    /\ FetchSettles(k, "rejected", "network error: Request timed out",
                    [calls[k].fetch EXCEPT
                        !.destroyed = TRUE,
                        !.stage = IF @ \in {"request", "unread"} THEN "none" ELSE @])
    /\ console' = FetchSayError(k)
    /\ UNCHANGED <<env, build, verbose, handle, procs, fs, madeDirs, hostExited>>

\* the request emits 'error' (no connection, or the socket failed): the
\* listener rejects with the error's name and message
FetchReqError(k) ==
    /\ calls[k].fetch.stage \in {"request", "pipeline", "unread"}
    /\ ~calls[k].fetch.destroyed
    /\ FetchSettles(k, "rejected", "Error: socket", [calls[k].fetch EXCEPT !.stage = "none"])
    /\ console' = FetchSayError(k)
    /\ UNCHANGED <<env, build, verbose, handle, procs, fs, madeDirs, hostExited>>

\* the state after the two constructors, either variant on either path
InitFetch ==
    /\ env = [cfg |-> CfgDefault, install |-> FALSE, mkOk |-> TRUE]
    /\ build = NoBuild
    /\ verbose \in [Inst -> BOOLEAN]
    /\ handle = [i \in Inst |-> Null]
    /\ procs = <<>>
    /\ calls = <<>>
    /\ last = NoOutcome
    /\ fs \in [Inst -> {EmptyFs, BareFs}]
    /\ madeDirs = {}
    /\ hostExited = FALSE
    /\ console = [i \in Inst |-> {}]

NextFetch ==
    \/ \E i \in Inst, update \in BOOLEAN : InstallCall(i, update)
    \/ \E k \in 1..Len(calls) : InstallFound(k)
    \/ \E k \in 1..Len(calls), answer \in Answers : InstallAnswer(k, answer)
    \/ \E k \in 1..Len(calls), hasLength \in BOOLEAN : FetchResponse(k, hasLength)
    \/ \E k \in 1..Len(calls), ok \in BOOLEAN : FetchMkdir(k, ok)
    \/ \E k \in 1..Len(calls) : FetchEntry(k)
    \/ \E k \in 1..Len(calls) : FetchEnd(k)
    \/ \E k \in 1..Len(calls) : FetchCorrupt(k)
    \/ \E k \in 1..Len(calls), closed \in BOOLEAN : FetchResError(k, closed)
    \/ \E k \in 1..Len(calls) : FetchTimeout(k)
    \/ \E k \in 1..Len(calls) : FetchReqError(k)

SpecFetch == InitFetch /\ [][NextFetch]_vars

-----------------------------------------------------------------------------
(* Properties of downloadDynamoDB, under SpecFetch *)

\* C28: the step in which a response without a content-length header
\* arrives rejects the install call with the size error and leaves the
\* filesystem as it was; the fetch of such a response never creates the
\* destination, unpacks nothing, and its call is never resolved.
C28_NoLengthRejects ==
    /\ [][\A k \in 1..Len(calls) :
             (calls[k].fetch.length = "none" /\ calls'[k].fetch.length = "absent") =>
                /\ last'.op = "install" /\ last'.inst = calls[k].inst
                /\ last'.pc = "rejected"
                /\ last'.err = "error: Unable to determine response size"
                /\ fs' = fs]_vars
    /\ [](\A k \in 1..Len(calls) :
             calls[k].fetch.length = "absent" =>
                /\ calls[k].pc = "settled"
                /\ calls[k].fetch.stage \in {"unread", "none"}
                /\ ~calls[k].fetch.made /\ calls[k].fetch.written = 0)
    /\ []((last.op = "install" /\ last.fetch.length = "absent") => last.pc = "rejected")

\* C28 witness: an install on a path that does not exist was rejected with
\* the size error, and the path still does not exist.
C28_Witness ==
    /\ last.op = "install" /\ last.pc = "rejected"
    /\ last.err = "error: Unable to determine response size"
    /\ last.fetch.length = "absent"
    /\ fs[last.inst] = EmptyFs

\* C29: an install rejected by its fetch before any timeout fired is
\* rejected with an error that has a message: the value of the rejection is
\* never the bare false.
C29_StreamErrorKeepsMessage ==
    (/\ last.op = "install" /\ last.pc = "rejected"
     /\ ~last.fetch.destroyed) =>
        last.err # "false"

\* C30: when an install is rejected by its fetch, nothing of what that
\* fetch created is left under the destination: not the destination it made
\* and none of the entries it unpacked.
C30_FailedFetchLeavesNothing ==
    (last.op = "install" /\ last.pc = "rejected") =>
        /\ last.fetch.made => ~fs[last.inst].exists
        /\ \A n \in 1..last.fetch.written :
              ArchiveOrder[n] \notin fs[last.inst].entries

-----------------------------------------------------------------------------
(* Properties of the readiness timer and of the handle, under Spec *)

\* C31: a readiness timer is pending only for a start call that is still
\* pending: once the call was rejected with the child's error, no timer of
\* it is left to fire.
C31_ErrorCancelsTimer ==
    \A k \in 1..Len(calls) : calls[k].timer => calls[k].pc = "pending"

\* C32: an uninstall that resolves on the default path leaves nothing under
\* it, the default data directory included; the removal of an uninstall on
\* a custom path takes away nothing but entries named DynamoDBLocal_lib,
\* DynamoDBLocal.jar, LICENSE.txt, README.txt or THIRD-PARTY-LICENSES.txt:
\* every other entry is still there, the path itself still exists, and
\* nothing is added. The tree of the other instance is not touched.
C32_UninstallRemovalTargets ==
    [][\A k \in 1..Len(calls) :
          LET i == calls[k].inst
              five == {"DynamoDBLocal_lib", "DynamoDBLocal.jar", "LICENSE.txt",
                       "README.txt", "THIRD-PARTY-LICENSES.txt"}
          IN Leaves(k, "uninstall", "remove") =>
                /\ \A j \in Inst \ {i} : fs'[j] = fs[j]
                /\ IF InstPath(i) = defaultPath
                   THEN /\ last'.pc = "resolved" => fs'[i] = EmptyFs
                        /\ last'.pc = "rejected" => fs'[i] = fs[i]
                   ELSE /\ fs'[i].exists = fs[i].exists
                        /\ fs'[i].entries \subseteq fs[i].entries
                        /\ \A e \in fs[i].entries :
                              e.name \notin five => e \in fs'[i].entries]_vars

\* C32 witness: an uninstall on the custom path resolved; the jar file and
\* the library directory are gone and the data directory is still there.
C32_Witness ==
    /\ last.op = "uninstall" /\ last.pc = "resolved" /\ last.inst = "cli"
    /\ InstPath("cli") # defaultPath
    /\ Dir("DynamoDBLocal_db") \in fs["cli"].entries
    /\ File("DynamoDBLocal.jar") \notin fs["cli"].entries
    /\ Dir("DynamoDBLocal_lib") \notin fs["cli"].entries

-----------------------------------------------------------------------------
(* start, stop and the child's events on installed paths, with the event
   loop's progress: a readdir or a mkdir that was awaited completes and an
   armed timer fires; what the child does is not forced *)

InitLive ==
    /\ Init
    /\ procs = <<>>
    /\ \A i \in Inst : fs[i] = InstalledFs

NextLive ==
    \/ \E i \in Inst : StartCall(i)
    \/ \E k \in 1..Len(calls) : StartFound(k)
    \/ \E k \in 1..Len(calls) : StartSpawn(k)
    \/ \E pid \in 1..Len(procs) : ChildMarker(pid)
    \/ \E k \in 1..Len(calls) : TimerFire(k)
    \/ \E pid \in 1..Len(procs) : ChildStderr(pid)
    \/ \E pid \in 1..Len(procs), dies \in BOOLEAN : ChildError(pid, dies)
    \/ \E pid \in 1..Len(procs) : ChildExit(pid)
    \/ \E i \in Inst : Stop(i)

SpecLive ==
    /\ InitLive /\ [][NextLive]_vars
    /\ WF_vars(\E k \in 1..Len(calls) : StartFound(k))
    /\ WF_vars(\E k \in 1..Len(calls) : StartSpawn(k))
    /\ WF_vars(\E k \in 1..Len(calls) : TimerFire(k))

\* C33: a start call that is pending on a child that has exited is
\* eventually settled.
C33_ExitedChildSettlesStart ==
    \A k \in 1..MaxCalls :
        (/\ k <= Len(calls) /\ calls[k].pc = "pending"
         /\ procs[calls[k].proc].state = "exited")
            ~> (k <= Len(calls) /\ calls[k].pc = "settled")

\* C34: when a start that spawned a child has just resolved, the handle of
\* its instance is that child and the child has not been sent a signal.
C34_ResolvedStartTracksChild ==
    (last.op = "start" /\ last.pc = "resolved" /\ last.proc # Null) =>
        /\ handle[last.inst] = last.proc
        /\ ~procs[last.proc].signalled

\* C35: when stop has just rejected with the not-running error, the test
\* start makes of the handle (the guard of StartCall) does not find a child,
\* so the next start on that instance is not rejected as already running.
C35_StopAndStartAgree ==
    (last.op = "stop" /\ last.pc = "rejected" /\ last.err = "NotRunning") =>
        handle[last.inst] = Null

\* C36: in the library variant, when the download of an install that a start
\* is awaiting fails (request or extraction), the start is rejected with the
\* error of the download and is over; the step spawns no child, leaves the
\* handle as it was, creates no directory outside the installation path and
\* no DynamoDBLocal_db inside it.
C36_FailedInstallRejectsStart ==
    [][\A k \in 1..Len(calls), outcome \in DownloadOutcomes \ {"ok"} :
          LET i == calls[k].inst
              p == calls[k].parent
          IN (Download(k, outcome) /\ p # 0 /\ ~verbose[i]) =>
                /\ last'.op = "start" /\ last'.inst = i
                /\ last'.pc = "rejected" /\ last'.err = "DownloadError"
                /\ calls'[p].pc = "settled" /\ calls'[k].pc = "settled"
                /\ procs' = procs /\ handle' = handle
                /\ madeDirs' = madeDirs
                /\ Dir("DynamoDBLocal_db") \in fs'[i].entries
                      => Dir("DynamoDBLocal_db") \in fs[i].entries]_vars

\* C36 witness: a library start was rejected with the download's error on a
\* path that still has no installation; no child exists and the handle is null.
C36_Witness ==
    /\ last.op = "start" /\ last.inst = "lib"
    /\ last.pc = "rejected" /\ last.err = "DownloadError"
    /\ ~verbose["lib"] /\ ~find(fs["lib"])
    /\ handle["lib"] = Null /\ procs = <<>>
    /\ Dir("DynamoDBLocal_db") \notin fs["lib"].entries

-----------------------------------------------------------------------------
(* The storage mode of a built list, under SpecArgs *)

\* the number of elements of args equal to x
Count(args, x) == Cardinality({k \in 1..Len(args) : args[k] = x})

\* every field of cfg has a value of the type DynamoDBOptions declares for it
DeclaredTypes(cfg) ==
    /\ cfg.port.t \in {"undefined", "number"}
    /\ cfg.dbPath.t \in {"undefined", "string"}
    /\ cfg.cors.isArray => \A k \in 1..Len(cfg.cors.elems) : cfg.cors.elems[k].isStr

\* C37: a build that succeeds for a configuration of the declared field
\* types returns a list with exactly one storage mode: one -inMemory and no
\* -dbPath, or one -dbPath and no -inMemory; every -optimizeDbBeforeStartup
\* in it stands right after -dbPath and the resolved dbPath of the caller.
C37_OneStorageMode ==
    LET cfg == env.cfg
        args == build.res.args
    IN (build.done /\ build.res.err = "none" /\ DeclaredTypes(cfg)) =>
          /\ \/ Count(args, "-inMemory") = 1 /\ Count(args, "-dbPath") = 0
             \/ Count(args, "-inMemory") = 0 /\ Count(args, "-dbPath") = 1
          /\ cfg.inMemory <=> Has(args, "-inMemory")
          /\ \A k \in 1..Len(args) :
                args[k] = "-optimizeDbBeforeStartup" =>
                   /\ k > 2 /\ args[k - 2] = "-dbPath"
                   /\ Truthy(cfg.dbPath)
                   /\ args[k - 1] = ResolvedText(cfg.dbPath)

\* C37 witness: inMemory without dbPath was built: the list holds -inMemory
\* once and no -dbPath.
C37_Witness ==
    /\ build.done /\ build.res.err = "none" /\ DeclaredTypes(env.cfg)
    /\ env.cfg.inMemory /\ env.cfg.dbPath = DbString(Path(FALSE, <<>>))
    /\ Count(build.res.args, "-inMemory") = 1
    /\ Count(build.res.args, "-dbPath") = 0

-----------------------------------------------------------------------------
(* The value a fetch rejects with, under SpecFetch *)

\* C38: whatever the order of the response-stream error, the request error
\* and the timeout, an install rejected by its fetch is rejected with an
\* error value, never with the boolean false, whether or not the request
\* had been destroyed.
C38_RejectionCarriesError ==
    (last.op = "install" /\ last.pc = "rejected") =>
        last.err \notin {"false", "none"}

=============================================================================
